---- MODULE Spec2Model ----
(***************************************************************************)
(* Model of the chat-completions relay: the text chunkers (TextChunker,    *)
(* SubtitleChunker), the lifecycle recorder (TranslationLogger) and the    *)
(* ChatHandler paths (single call, streamed call, chunked run).            *)
(*                                                                         *)
(* A text is a sequence of characters; a character is a one-element        *)
(* string.  JavaScript indices are 0-based, TLA+ sequences 1-based: the    *)
(* operators below take and return the 0-based JavaScript positions.       *)
(***************************************************************************)
EXTENDS Integers, Sequences, FiniteSets, TLC

Min(a, b) == IF a <= b THEN a ELSE b
Max(a, b) == IF a >= b THEN a ELSE b
Abs(a) == IF a >= 0 THEN a ELSE 0 - a
SetMin(S) == CHOOSE x \in S : \A y \in S : x <= y
SetMax(S) == CHOOSE x \in S : \A y \in S : x >= y

\* bounds of the chunker specification
MaxTextLen == 5
MaxSizeArg == 4
MaxChunks == 6

\* ------------------------------------------------------------------ text

\* String.prototype.substring(a, b): both ends clamped to 0..length, and
\* swapped when a > b.
substring(text, a, b) ==
  LET ca == Max(0, Min(a, Len(text)))
      cb == Max(0, Min(b, Len(text)))
  IN SubSeq(text, Min(ca, cb) + 1, Max(ca, cb))

\* characters String.prototype.trim() strips (those the model's texts use)
WhiteSpace == {" ", "\t", "\n", "\r"}

\* the 1-based positions of s that hold no white space
Inked(s) == {i \in 1..Len(s) : s[i] \notin WhiteSpace}

\* the first and the last of them (of a text that has one)
FirstInked(s) ==
  CHOOSE i \in 1..Len(s) :
    s[i] \notin WhiteSpace /\ \A j \in 1..(i - 1) : s[j] \in WhiteSpace
LastInked(s) ==
  CHOOSE i \in 1..Len(s) :
    s[i] \notin WhiteSpace /\ \A j \in (i + 1)..Len(s) : s[j] \in WhiteSpace

trimStart(s) == IF Inked(s) = {} THEN <<>> ELSE SubSeq(s, FirstInked(s), Len(s))

trimEnd(s) == IF Inked(s) = {} THEN <<>> ELSE SubSeq(s, 1, LastInked(s))

trim(s) == trimEnd(trimStart(s))

\* Array.prototype.join(sep) of an array of texts
RECURSIVE join(_, _)
join(parts, sep) ==
  IF parts = <<>> THEN <<>>
  ELSE IF Len(parts) = 1 THEN parts[1]
  ELSE parts[1] \o sep \o join(Tail(parts), sep)

\* ----------------------------------------------------------- TextChunker

MAX_CHUNK_SIZE == 2000
OVERLAP_SIZE == 100
LOOKAHEAD == 200

sentenceEnders == {".", "!", "?", "\n", "U+3002", "U+FF01", "U+FF1F"}

calculateBreakScore(position, target) == Max(0, 100 - Abs(position - target))

\* findSentenceBreak.  Its for loop runs i from searchText.length - 1 down to
\* max(0, target - start - 200) and keeps a break only when its score is
\* strictly greater than the best so far (0 at first): what it returns is
\* the break of the greatest score above 0, the one at the greatest i among
\* those of that score, and target when no sentence ender scores above 0.
findSentenceBreak(text, start, target) ==
  LET searchText == substring(text, start, target + LOOKAHEAD)
      scanned == Max(0, target - start - LOOKAHEAD)..(Len(searchText) - 1)
      hits == {i \in scanned :
                 /\ searchText[i + 1] \in sentenceEnders
                 /\ calculateBreakScore(start + i + 1, target) > 0}
      bestScore == SetMax({calculateBreakScore(start + i + 1, target) : i \in hits})
  IN IF hits = {} THEN target
     ELSE start + SetMax({i \in hits : calculateBreakScore(start + i + 1, target) = bestScore}) + 1

\* mutant: a break at exactly 70% is taken
BreakAccepted_AtLeast(sentenceEnd, startIndex, maxChunkSize) ==
  10 * sentenceEnd >= 10 * startIndex + 7 * maxChunkSize

\* sentenceEnd > startIndex + maxChunkSize * 0.7, in tenths
BreakAccepted(sentenceEnd, startIndex, maxChunkSize) ==
  10 * sentenceEnd > 10 * startIndex + 7 * maxChunkSize

\* where one iteration of the while loop of chunkText cuts the window
chunkEnd(text, maxChunkSize, startIndex) ==
  LET endIndex == Min(startIndex + maxChunkSize, Len(text))
  IN IF endIndex < Len(text)
        /\ BreakAccepted(findSentenceBreak(text, startIndex, endIndex), startIndex, maxChunkSize)
     THEN findSentenceBreak(text, startIndex, endIndex)
     ELSE endIndex

\* the start of the next window
nextStart(endIndex) == Max(endIndex - OVERLAP_SIZE, endIndex)

TextChunk(prefix, content, index, totalChunks, originalLength) ==
  [id |-> <<prefix, index>>, content |-> content, index |-> index,
   totalChunks |-> totalChunks, originalLength |-> originalLength]

\* one iteration of the while loop of chunkText on the loop state
\* [startIndex, chunkIndex, chunks]
chunkTextIter(text, maxChunkSize, st) ==
  LET endIndex == chunkEnd(text, maxChunkSize, st.startIndex)
  IN [startIndex |-> nextStart(endIndex),
      chunkIndex |-> st.chunkIndex + 1,
      chunks |-> Append(st.chunks,
                        TextChunk("chunk", substring(text, st.startIndex, endIndex),
                                  st.chunkIndex, 0, Len(text)))]

\* mutant: the post-pass is left out
updateTotalChunks_Skipped(chunks) == chunks

\* chunks.forEach(chunk => chunk.totalChunks = chunks.length)
updateTotalChunks(chunks) ==
  [i \in 1..Len(chunks) |-> [chunks[i] EXCEPT !.totalChunks = Len(chunks)]]

RECURSIVE chunkTextLoop(_, _, _)
chunkTextLoop(text, maxChunkSize, st) ==
  IF st.startIndex < Len(text)
  THEN chunkTextLoop(text, maxChunkSize, chunkTextIter(text, maxChunkSize, st))
  ELSE st.chunks

\* mutant: the early return keeps the placeholder count
chunkTextWhole_NoCount(text) == <<TextChunk("chunk", text, 0, 0, Len(text))>>

chunkTextWhole(text) == <<TextChunk("chunk", text, 0, 1, Len(text))>>

\* TextChunker.chunkText (for arguments on which its loop ends)
chunkText(text, maxChunkSize) ==
  IF Len(text) <= maxChunkSize
  THEN chunkTextWhole(text)
  ELSE updateTotalChunks(chunkTextLoop(text, maxChunkSize,
         [startIndex |-> 0, chunkIndex |-> 0, chunks |-> <<>>]))

\* chunks.sort((a, b) => a.index - b.index): a stable sort, so chunks of
\* equal index keep their order; insertByIndex puts c behind every chunk
\* whose index is not greater
RECURSIVE insertByIndex(_, _)
insertByIndex(sorted, c) ==
  IF sorted = <<>> THEN <<c>>
  ELSE IF Head(sorted).index <= c.index
       THEN <<Head(sorted)>> \o insertByIndex(Tail(sorted), c)
  ELSE <<c>> \o sorted

RECURSIVE sortFrom(_, _)
sortFrom(chunks, sorted) ==
  IF chunks = <<>> THEN sorted
  ELSE sortFrom(Tail(chunks), insertByIndex(sorted, Head(chunks)))

\* mutant: the chunks are folded in the order they were handed over
sortByIndex_None(chunks) == chunks

\* chunks.sort((a, b) => a.index - b.index)
sortByIndex(chunks) == sortFrom(chunks, <<>>)

\* mutant: the first match of an upward scan
findOverlap_Shortest(text1, text2) ==
  LET maxOverlap == Min(Min(OVERLAP_SIZE * 2, Len(text1)), Len(text2))
      matches == {i \in 1..maxOverlap :
                    substring(text1, Len(text1) - i, Len(text1)) = substring(text2, 0, i)}
  IN IF matches = {} THEN 0 ELSE SetMin(matches)

\* TextChunker.findOverlap: i runs from maxOverlap down to 1 and the first i
\* whose suffix of text1 equals the prefix of text2 is returned, 0 for none
findOverlap(text1, text2) ==
  LET maxOverlap == Min(Min(OVERLAP_SIZE * 2, Len(text1)), Len(text2))
      matches == {i \in 1..maxOverlap :
                    substring(text1, Len(text1) - i, Len(text1)) = substring(text2, 0, i)}
  IN IF matches = {} THEN 0 ELSE SetMax(matches)

\* the for loop of reconstructText; i is the 0-based index of the current chunk
RECURSIVE reconstructLoop(_, _, _)
reconstructLoop(sortedChunks, i, result) ==
  IF i < Len(sortedChunks)
  THEN LET currentChunk == sortedChunks[i + 1]
           previousChunk == sortedChunks[i]
           overlap == findOverlap(previousChunk.content, currentChunk.content)
           cleanContent == substring(currentChunk.content, overlap, Len(currentChunk.content))
       IN reconstructLoop(sortedChunks, i + 1, result \o cleanContent)
  ELSE result

\* TextChunker.reconstructText
reconstructText(chunks) ==
  IF Len(chunks) = 0 THEN <<>>
  ELSE IF Len(chunks) = 1 THEN chunks[1].content
  ELSE reconstructLoop(sortByIndex(chunks), 1, sortByIndex(chunks)[1].content)

\* -------------------------------------------------------- SubtitleChunker

\* the length of the match of /\n\n|\r\n\r\n/ at 0-based position p, 0 for none
separatorAt(text, p) ==
  IF p + 2 <= Len(text) /\ text[p + 1] = "\n" /\ text[p + 2] = "\n" THEN 2
  ELSE IF p + 4 <= Len(text) /\ SubSeq(text, p + 1, p + 4) = <<"\r", "\n", "\r", "\n">> THEN 4
  ELSE 0

\* String.prototype.split(/\n\n|\r\n\r\n/): the leftmost match at or after
\* from ends a piece, and the scan goes on behind the match
RECURSIVE splitBlocksFrom(_, _)
splitBlocksFrom(text, from) ==
  LET matches == {p \in from..(Len(text) - 1) : separatorAt(text, p) > 0}
  IN IF matches = {}
     THEN <<substring(text, from, Len(text))>>
     ELSE <<substring(text, from, SetMin(matches))>>
          \o splitBlocksFrom(text, SetMin(matches) + separatorAt(text, SetMin(matches)))

splitBlocks(text) == splitBlocksFrom(text, 0)

\* mutant: the blocks of a chunk are joined by a single newline
chunkSubtitlesIter_SingleNewline(st, line, maxChunkSize, originalLength) ==
  IF Len(st.currentChunk) + Len(line) > maxChunkSize /\ Len(st.currentChunk) > 0
  THEN [currentChunk |-> line,
        chunkIndex |-> st.chunkIndex + 1,
        chunks |-> Append(st.chunks,
                          TextChunk("subtitle-chunk", trim(st.currentChunk),
                                    st.chunkIndex, 0, originalLength))]
  ELSE [st EXCEPT !.currentChunk =
          @ \o (IF @ # <<>> THEN <<"\n">> ELSE <<>>) \o line]

\* the body of the for loop of chunkSubtitles on the loop state
\* [currentChunk, chunkIndex, chunks]
chunkSubtitlesIter(st, line, maxChunkSize, originalLength) ==
  IF Len(st.currentChunk) + Len(line) > maxChunkSize /\ Len(st.currentChunk) > 0
  THEN [currentChunk |-> line,
        chunkIndex |-> st.chunkIndex + 1,
        chunks |-> Append(st.chunks,
                          TextChunk("subtitle-chunk", trim(st.currentChunk),
                                    st.chunkIndex, 0, originalLength))]
  ELSE [st EXCEPT !.currentChunk =
          @ \o (IF @ # <<>> THEN <<"\n", "\n">> ELSE <<>>) \o line]

RECURSIVE chunkSubtitlesLoop(_, _, _, _)
chunkSubtitlesLoop(lines, st, maxChunkSize, originalLength) ==
  IF lines = <<>> THEN st
  ELSE chunkSubtitlesLoop(Tail(lines),
                          chunkSubtitlesIter(st, Head(lines), maxChunkSize, originalLength),
                          maxChunkSize, originalLength)

\* the final chunk, pushed only when it is not blank
chunkSubtitlesFinal(st, originalLength) ==
  IF trim(st.currentChunk) # <<>>
  THEN Append(st.chunks, TextChunk("subtitle-chunk", trim(st.currentChunk),
                                   st.chunkIndex, 0, originalLength))
  ELSE st.chunks

\* SubtitleChunker.chunkSubtitles
chunkSubtitles(subtitles, maxChunkSize) ==
  updateTotalChunks(
    chunkSubtitlesFinal(
      chunkSubtitlesLoop(splitBlocks(subtitles),
                         [currentChunk |-> <<>>, chunkIndex |-> 0, chunks |-> <<>>],
                         maxChunkSize, Len(subtitles)),
      Len(subtitles)))

\* ---------------------------------------------------- TranslationLogger

\* an Error and its message; chunk and status are the numbers the message
\* of handleChunkedTranslation's own error carries
Error(text) == [text |-> text, chunk |-> 0, status |-> 0]
NoError == Error("none")

\* new Error(`Chunk ${i + 1} failed with status ${response.status}`)
ChunkError(i, status) == [text |-> "Chunk failed with status", chunk |-> i + 1, status |-> status]

\* an absent entry of the metrics map (Map.get gives undefined)
NoMetrics ==
  [present |-> FALSE, status |-> "none", textLength |-> 0, model |-> "none",
   chunkCount |-> -1, error |-> NoError]

\* TranslationLogger.startTranslation: metrics.set(requestId, fresh entry)
startTranslation(m, requestId, textLength, model) ==
  [m EXCEPT ![requestId] =
     [present |-> TRUE, status |-> "started", textLength |-> textLength,
      model |-> model, chunkCount |-> -1, error |-> NoError]]

\* TranslationLogger.completeTranslation; chunkCount -1 stands for undefined
completeTranslation(m, requestId, chunkCount) ==
  IF m[requestId].present
  THEN [m EXCEPT ![requestId].status = "completed", ![requestId].chunkCount = chunkCount]
  ELSE m

\* mutant: a failure for an id without an entry makes one
failTranslation_Upsert(m, requestId, error) ==
  [m EXCEPT ![requestId] =
     [present |-> TRUE, status |-> "failed",
      textLength |-> IF @.present THEN @.textLength ELSE 0,
      model |-> IF @.present THEN @.model ELSE "none",
      chunkCount |-> @.chunkCount, error |-> error]]

\* TranslationLogger.failTranslation
failTranslation(m, requestId, error) ==
  IF m[requestId].present
  THEN [m EXCEPT ![requestId].status = "failed", ![requestId].error = error]
  ELSE m

\* ------------------------------------------------- ChatHandler: requests

Rep(c, n) == [i \in 1..n |-> c]

Digits == {"0", "1", "2", "3", "4", "5", "6", "7", "8", "9"}
Letters == {"a", "b", "c", "H", "i", "o", "l", "N", "r", "e", "s", "p", "n", "g", "t", "d"}
WordChars == Letters \cup Digits \cup {"_"}
LineTerminators == {"\n", "\r", "U+2028", "U+2029"}

\* /\d{2}:\d{2}:\d{2}[,.]\d{3}/ matches at 1-based position p
timestampAt(text, p) ==
  /\ p + 11 <= Len(text)
  /\ \A k \in {0, 1, 3, 4, 6, 7, 9, 10, 11} : text[p + k] \in Digits
  /\ text[p + 2] = ":"
  /\ text[p + 5] = ":"
  /\ text[p + 8] \in {",", "."}

\* /^\d+$/m matches the line that starts at 1-based position p
digitLineAt(text, p) ==
  /\ p = 1 \/ text[p - 1] \in LineTerminators
  /\ text[p] \in Digits
  /\ LET stops == {q \in p..Len(text) : text[q] \notin Digits}
     IN stops = {} \/ text[SetMin(stops)] \in LineTerminators

\* /-->/ matches at p
arrowAt(text, p) ==
  /\ p + 2 <= Len(text)
  /\ text[p] = "-" /\ text[p + 1] = "-" /\ text[p + 2] = ">"

\* /<[^>]+>/ matches at p
tagAt(text, p) ==
  /\ text[p] = "<"
  /\ p + 1 <= Len(text)
  /\ text[p + 1] # ">"
  /\ \E q \in (p + 2)..Len(text) : text[q] = ">"

\* /\[\w+\]/ matches at p
bracketAt(text, p) ==
  /\ text[p] = "["
  /\ LET stops == {q \in (p + 1)..Len(text) : text[q] \notin WordChars}
     IN stops # {} /\ SetMin(stops) >= p + 2 /\ text[SetMin(stops)] = "]"

\* mutant: the list of patterns lacks the SRT arrow
detectSubtitles_NoArrow(text) ==
  \/ \E p \in 1..Len(text) : timestampAt(text, p)
  \/ \E p \in 1..Len(text) : digitLineAt(text, p)
  \/ \E p \in 1..Len(text) : tagAt(text, p)
  \/ \E p \in 1..Len(text) : bracketAt(text, p)

\* ChatHandler.detectSubtitles: subtitlePatterns.some(pattern => pattern.test(text))
detectSubtitles(text) ==
  \/ \E p \in 1..Len(text) : timestampAt(text, p)
  \/ \E p \in 1..Len(text) : digitLineAt(text, p)
  \/ \E p \in 1..Len(text) : arrowAt(text, p)
  \/ \E p \in 1..Len(text) : tagAt(text, p)
  \/ \E p \in 1..Len(text) : bracketAt(text, p)

\* a message content is a string (isString, with its text) or an array of
\* parts; a null element of messages has no content to read
StringContent(text) == [isNull |-> FALSE, isString |-> TRUE, text |-> text]
ArrayContent == [isNull |-> FALSE, isString |-> FALSE, text |-> <<>>]
NullMessage == [isNull |-> TRUE, isString |-> FALSE, text |-> <<>>]

\* msg.content of a null msg throws a TypeError
contentThrows(messages) == \E i \in 1..Len(messages) : messages[i].isNull

\* typeof msg.content === 'string' ? msg.content.length : 0, summed
RECURSIVE totalTextLength(_)
totalTextLength(messages) ==
  IF messages = <<>> THEN 0
  ELSE (IF Head(messages).isString THEN Len(Head(messages).text) ELSE 0)
       + totalTextLength(Tail(messages))

\* messages.map(msg => typeof msg.content === 'string' ? msg.content : '').join(' ')
textContent(messages) ==
  join([i \in 1..Len(messages) |->
          IF messages[i].isString THEN messages[i].text ELSE <<>>], <<" ">>)

CHUNK_THRESHOLD == 2000
TEXT_CHUNK_SIZE == 2000
SUBTITLE_CHUNK_SIZE == 1500

\* mutant: the threshold itself already chunks
shouldChunk_AtThreshold(length) == length >= CHUNK_THRESHOLD

\* const shouldChunk = totalTextLength > 2000
shouldChunk(length) == length > CHUNK_THRESHOLD

\* the strategy choice of handleChunkedTranslation
chunksFor(text, isSubtitles) ==
  IF isSubtitles THEN chunkSubtitles(text, SUBTITLE_CHUNK_SIZE)
  ELSE chunkText(text, TEXT_CHUNK_SIZE)

\* the models of the constants module, and the default one
SupportedModels == {"gpt-4o-mini", "gpt-4o"}
DEFAULT_MODEL == "gpt-4o-mini"

\* requestBody.model || DEFAULT_MODEL ("" stands for an absent model)
modelOf(body) == IF body.model = "" THEN DEFAULT_MODEL ELSE body.model

\* !requestBody.messages || !Array.isArray(requestBody.messages)
messagesInvalid(body) == ~body.hasMessages \/ ~body.messagesIsArray

Hola == <<"H", "o", "l", "a">>
Plain1000 == Rep("a", 1000)
Plain1001 == Rep("a", 999) \o <<".", "b">>
SubtitleLong ==
  <<"1">> \o <<"\n", "\n">> \o Rep("a", 1400) \o <<"\n", "\n">> \o Rep("b", 700)
  \o <<"\r", "\n", "\r", "\n">> \o Rep("c", 900)

RequestBody(hasMessages, isArray, messages, model, stream) ==
  [hasMessages |-> hasMessages, messagesIsArray |-> isArray, messages |-> messages,
   model |-> model, stream |-> stream]

\* the request bodies the clients send
Bodies == <<
  RequestBody(FALSE, FALSE, <<>>, "gpt-4o", FALSE),
  RequestBody(TRUE, FALSE, <<>>, "gpt-4o", TRUE),
  RequestBody(TRUE, TRUE, <<StringContent(Hola)>>, "no-such-model", FALSE),
  RequestBody(TRUE, TRUE, <<StringContent(Hola)>>, "", FALSE),
  RequestBody(TRUE, TRUE, <<ArrayContent, StringContent(Plain1000), StringContent(Plain1000)>>,
              "gpt-4o", FALSE),
  RequestBody(TRUE, TRUE, <<StringContent(Plain1000), StringContent(Plain1000)>>,
              "gpt-4o", TRUE),
  RequestBody(TRUE, TRUE, <<StringContent(Plain1000), StringContent(Plain1001)>>,
              "gpt-4o", TRUE),
  RequestBody(TRUE, TRUE, <<StringContent(SubtitleLong)>>, "", FALSE),
  RequestBody(TRUE, TRUE, <<StringContent(Hola), NullMessage>>, "gpt-4o", FALSE) >>

\* what handleChatCompletionsWithBody and handleChunkedTranslation compute
\* from a body before the first backend call
prepare(body) ==
  LET text == textContent(body.messages)
      isSubtitles == detectSubtitles(text)
  IN [totalTextLength |-> totalTextLength(body.messages),
      textLength |-> Len(text),
      isSubtitles |-> isSubtitles,
      chunks |-> chunksFor(text, isSubtitles)]

\* prepare, tabulated over the bodies
Prepared ==
  <<prepare(Bodies[1]), prepare(Bodies[2]), prepare(Bodies[3]), prepare(Bodies[4]),
    prepare(Bodies[5]), prepare(Bodies[6]), prepare(Bodies[7]), prepare(Bodies[8]),
    prepare(Bodies[9])>>

\* ------------------------------------------------------------ variables

VARIABLES
  cText,    \* chunker run: the text argument
  cMax,     \* chunker run: the maxChunkSize argument
  cFn,      \* chunker run: the function called ("none" before the call)
  cPc,      \* chunker run: "ready", "loop" (inside the while loop), "returned"
  cLoop,    \* chunker run: the while loop's startIndex, chunkIndex, chunks
  cResult,  \* chunker run: the returned chunks
  cArg,     \* chunker run: the chunk array handed to reconstructText
  cRebuilt, \* chunker run: the text reconstructText returned
  bodyId,   \* per request: which of Bodies it carries
  pc,       \* per request: where its handler is suspended
  metrics,  \* TranslationLogger.metrics, keyed by request id
  response, \* per request: the Response handed back to the caller
  calls,    \* per request: the sendChatRequest calls made so far
  run,      \* per request: the locals of handleChunkedTranslation
  pump,     \* per request: the detached streaming task
  source,   \* per request: the backend's body stream (reads, pieces delivered)
  sink      \* per request: the writable end of its TransformStream

chunkVars == <<cText, cMax, cFn, cPc, cLoop, cResult, cArg, cRebuilt>>
handlerVars == <<bodyId, pc, metrics, response, calls, run, pump, source, sink>>
vars == <<cText, cMax, cFn, cPc, cLoop, cResult, cArg, cRebuilt,
          bodyId, pc, metrics, response, calls, run, pump, source, sink>>

\* the request ids generateUUID hands out
Requests == {"req-1", "req-2"}

NoResponse == [kind |-> "none", ok |-> FALSE, status |-> 0, content |-> <<>>, message |-> "none"]
NoRun == [isSubtitles |-> FALSE, n |-> 0, i |-> 0, translatedChunks |-> <<>>]
NoPump == [state |-> "off", allChunks |-> <<>>, pending |-> <<>>, error |-> NoError]
NoSource == [body |-> "unknown", reads |-> 0, delivered |-> <<>>, ended |-> FALSE]
NoSink == [state |-> "none", frames |-> <<>>, reason |-> NoError]

\* no request has arrived
HandlerIdle ==
  /\ pc = [r \in Requests |-> "idle"]
  /\ metrics = [r \in Requests |-> NoMetrics]
  /\ response = [r \in Requests |-> NoResponse]
  /\ calls = [r \in Requests |-> <<>>]
  /\ run = [r \in Requests |-> NoRun]
  /\ pump = [r \in Requests |-> NoPump]
  /\ source = [r \in Requests |-> NoSource]
  /\ sink = [r \in Requests |-> NoSink]

\* ------------------------------------------- the chunkers, step by step

ChunkAlphabet == {"a", ".", "\n", "\r"}
ChunkTexts == UNION {[1..k -> ChunkAlphabet] : k \in 0..MaxTextLen}

\* a text of n letters with a full stop at each (1-based) position of P
MarkedText(n, P) == [i \in 1..n |-> IF i \in P THEN "." ELSE "a"]

\* windows of BoundarySize characters with sentence ends at 50%, at exactly
\* 70%, beyond 70% and behind the window
BoundaryLength == 12
BoundarySize == 10
BoundaryInputs ==
  {[text |-> MarkedText(BoundaryLength, P), max |-> BoundarySize] :
     P \in SUBSET {5, 7, 8, 11}}

\* the scenario text of ScenarioLength characters, chunked at MAX_CHUNK_SIZE,
\* with sentence ends at the edges of what findSentenceBreak scores above 0
\* around the first window's target and around the targets that follow
ScenarioLength == 5000
ScenarioInputs ==
  {[text |-> MarkedText(ScenarioLength, P), max |-> MAX_CHUNK_SIZE] :
     P \in SUBSET {1901, 2050, 2099, 3802, 4198}}

\* an SRT block: sequence number, timing line, caption
SrtBlock(number) ==
  <<number, "\n">>
  \o <<"0", "0", ":", "0", "0", ":", "0", "1", ",", "0", "0", "0">>
  \o <<" ", "-", "-", ">", " ">>
  \o <<"0", "0", ":", "0", "0", ":", "0", "2", ",", "5", "0", "0", "\n">>
  \o Hola

\* the first n SRT blocks with sep between them and tail behind the last
SrtText(n, sep, tail) ==
  join([k \in 1..n |-> SrtBlock(<<"1", "2", "3">>[k])], sep) \o tail

\* the length of n SRT blocks joined by double newlines
SrtJoinedLength(n) == n * Len(SrtBlock("1")) + 2 * (n - 1)

\* subtitle files of one to three blocks, with either separator, with and
\* without a final newline, chunked at SUBTITLE_CHUNK_SIZE and at the sizes
\* around the length of three joined blocks
SubtitleInputs ==
  {[text |-> SrtText(n, sep, tail), max |-> m] :
     n \in 1..3, sep \in {<<"\n", "\n">>, <<"\r", "\n", "\r", "\n">>},
     tail \in {<<>>, <<"\n">>},
     m \in {SUBTITLE_CHUNK_SIZE, SrtJoinedLength(3) + 1, SrtJoinedLength(3),
            SrtJoinedLength(3) - 1}}

\* texts of the characters the subtitle patterns are made of
MaxPatternLen == 3
PatternAlphabet == {"-", ">", "<", "[", "]", "1", "a", "\n"}
PatternTexts == UNION {[1..k -> PatternAlphabet] : k \in 0..MaxPatternLen}

\* a timestamp with this character between seconds and milliseconds
TimestampText(c) == <<"1", "2", ":", "3", "4", ":", "5", "6", c, "7", "8", "9">>

\* timestamps with a comma and with a dot, inside a line, and two texts that
\* fall short of one (a semicolon; two digits of milliseconds)
TimestampTexts ==
  {TimestampText(","), TimestampText("."), TimestampText(";"),
   <<"a", " ">> \o TimestampText(",") \o <<" ", "a">>,
   SubSeq(TimestampText(","), 1, 11)}

PatternInputs ==
  {[text |-> t, max |-> MaxSizeArg] : t \in PatternTexts \cup TimestampTexts}

\* the calls made of the chunkers: a text and a maxChunkSize
ChunkInputs ==
  {[text |-> t, max |-> m] : t \in ChunkTexts, m \in 0..MaxSizeArg}
  \cup BoundaryInputs \cup ScenarioInputs \cup SubtitleInputs \cup PatternInputs

Reverse(s) == [i \in 1..Len(s) |-> s[Len(s) + 1 - i]]

\* the arrays a caller hands to reconstructText: the chunks as returned, or
\* last chunk first
\* arrays up to this length are handed over in every order
MaxPermuted == 3

Reorderings(n) == {p \in [1..n -> 1..n] : \A i, j \in 1..n : p[i] = p[j] => i = j}

\* the orders in which a caller may hand the chunks to reconstructText:
\* every order for a short array, as returned or last first for a longer one
Arrangements(chunks) ==
  IF Len(chunks) <= MaxPermuted
  THEN {[i \in 1..Len(chunks) |-> chunks[p[i]]] : p \in Reorderings(Len(chunks))}
  ELSE {chunks, Reverse(chunks)}

NoLoop == [startIndex |-> 0, chunkIndex |-> 0, chunks |-> <<>>]

InitChunk ==
  /\ \E input \in ChunkInputs :
       /\ cText = input.text
       /\ cMax = input.max
  /\ cFn = "none"
  /\ cPc = "ready"
  /\ cLoop = NoLoop
  /\ cResult = <<>>
  /\ cArg = <<>>
  /\ cRebuilt = <<>>
  /\ bodyId = [r \in Requests |-> 1]
  /\ HandlerIdle

\* chunkText, text.length <= maxChunkSize: the early return
ChunkTextWhole ==
  /\ cPc = "ready"
  /\ Len(cText) <= cMax
  /\ cFn' = "chunkText"
  /\ cPc' = "returned"
  /\ cResult' = chunkTextWhole(cText)
  /\ UNCHANGED <<cText, cMax, cLoop, cArg, cRebuilt>>
  /\ UNCHANGED handlerVars

\* chunkText, otherwise: the while loop is entered
ChunkTextEnter ==
  /\ cPc = "ready"
  /\ ~(Len(cText) <= cMax)
  /\ cFn' = "chunkText"
  /\ cPc' = "loop"
  /\ cLoop' = NoLoop
  /\ UNCHANGED <<cText, cMax, cResult, cArg, cRebuilt>>
  /\ UNCHANGED handlerVars

\* one iteration of the while loop (the model stops a run at MaxChunks)
ChunkTextStep ==
  /\ cPc = "loop"
  /\ cLoop.startIndex < Len(cText)
  /\ Len(cLoop.chunks) < MaxChunks
  /\ cLoop' = chunkTextIter(cText, cMax, cLoop)
  /\ UNCHANGED <<cText, cMax, cFn, cPc, cResult, cArg, cRebuilt>>
  /\ UNCHANGED handlerVars

\* the loop condition fails: totalChunks is filled in and the chunks returned
ChunkTextReturn ==
  /\ cPc = "loop"
  /\ ~(cLoop.startIndex < Len(cText))
  /\ cPc' = "returned"
  /\ cResult' = updateTotalChunks(cLoop.chunks)
  /\ UNCHANGED <<cText, cMax, cFn, cLoop, cArg, cRebuilt>>
  /\ UNCHANGED handlerVars

\* chunkSubtitles, the whole call
ChunkSubtitlesCall ==
  /\ cPc = "ready"
  /\ cFn' = "chunkSubtitles"
  /\ cPc' = "returned"
  /\ cResult' = chunkSubtitles(cText, cMax)
  /\ UNCHANGED <<cText, cMax, cLoop, cArg, cRebuilt>>
  /\ UNCHANGED handlerVars

\* reconstructText is called on the returned chunks
Reconstruct ==
  /\ cPc = "returned"
  /\ \E chunks \in Arrangements(cResult) :
       /\ cArg' = chunks
       /\ cRebuilt' = reconstructText(chunks)
  /\ cPc' = "reconstructed"
  /\ UNCHANGED <<cText, cMax, cFn, cLoop, cResult>>
  /\ UNCHANGED handlerVars

\* handleChunkedTranslation classifies the text and calls the chunker of
\* its class with that class's size
DetectAndChunk ==
  /\ cPc = "ready"
  /\ LET isSubtitles == detectSubtitles(cText)
     IN /\ cFn' = IF isSubtitles THEN "chunkSubtitles" ELSE "chunkText"
        /\ cMax' = IF isSubtitles THEN SUBTITLE_CHUNK_SIZE ELSE TEXT_CHUNK_SIZE
        /\ cResult' = chunksFor(cText, isSubtitles)
  /\ cPc' = "chunked"
  /\ UNCHANGED <<cText, cLoop, cArg, cRebuilt>>
  /\ UNCHANGED handlerVars

NextChunk ==
  \/ DetectAndChunk
  \/ ChunkTextWhole
  \/ ChunkTextEnter
  \/ ChunkTextStep
  \/ ChunkTextReturn
  \/ ChunkSubtitlesCall
  \/ Reconstruct

SpecChunk == InitChunk /\ [][NextChunk]_vars

\* ------------------------------------------------ ChatHandler: helpers

\* the ways sendChatRequest fails: the transport rejects, or the backend
\* answers with a non-success status
BackendFailures == {Error("fetch failed"), Error("backend status 500")}

\* the result text a successful backend answer carries (possibly none)
BackendResults == {<<>>, Hola}

\* createErrorResponse(message, status); status 0 stands for its default
ErrorResponse(message, status) ==
  [kind |-> "error", ok |-> FALSE, status |-> status, content |-> <<>>, message |-> message]

\* createSuccessResponse(openAIResponse): a chat.completion with this content
SuccessResponse(content) ==
  [kind |-> "chat.completion", ok |-> TRUE, status |-> 200, content |-> content, message |-> "none"]

\* new Response(readable, {headers: {'Content-Type': 'text/event-stream', ...}})
StreamResponse ==
  [kind |-> "event-stream", ok |-> TRUE, status |-> 200, content |-> <<>>, message |-> "none"]

NoResponseGenerated ==
  <<"N", "o", " ", "r", "e", "s", "p", "o", "n", "s", "e", " ",
    "g", "e", "n", "e", "r", "a", "t", "e", "d">>

\* transformToOpenAIFormat: choices[0].message.content
transformToOpenAIFormat(data) == IF data # <<>> THEN data ELSE NoResponseGenerated

\* one sendChatRequest call: the segment it carries (-1 outside a chunked
\* run), its streaming flag and how it ended (with the result text of a
\* successful answer, or the error a failed call threw)
BackendCall(seg, streaming) ==
  [seg |-> seg, streaming |-> streaming, outcome |-> "pending", reply |-> <<>>,
   error |-> NoError]

issue(cs, seg, streaming) == Append(cs, BackendCall(seg, streaming))
settle(cs, outcome, data) ==
  [cs EXCEPT ![Len(cs)].outcome = outcome, ![Len(cs)].reply = data]

\* the call threw e
settleFailed(cs, e) == [cs EXCEPT ![Len(cs)].outcome = "failed", ![Len(cs)].error = e]

Body(r) == Bodies[bodyId[r]]
Chunks(r) == Prepared[bodyId[r]].chunks

\* mutant: the separator ignores the classification
finalTranslation_SpaceOnly(translatedChunks, isSubtitles) == join(translatedChunks, <<" ">>)

\* translatedChunks.join(isSubtitles ? '\n\n' : ' ')
finalTranslation(translatedChunks, isSubtitles) ==
  join(translatedChunks, IF isSubtitles THEN <<"\n", "\n">> ELSE <<" ">>)

\* the bytes a source stream delivers, and new TextDecoder().decode(value):
\* a fresh decoder per piece, so a lead byte that its continuation byte
\* does not follow within the piece decodes to U+FFFD
LeadBytes == {"C3"}
ContinuationBytes == {"A9"}
Pieces == {<<"H", "C3", "A9">>, <<"C3">>}

RECURSIVE decode(_)
decode(bytes) ==
  IF bytes = <<>> THEN <<>>
  ELSE IF Head(bytes) \in LeadBytes
       THEN IF Len(bytes) >= 2 /\ bytes[2] \in ContinuationBytes
            THEN <<"U+00E9">> \o decode(SubSeq(bytes, 3, Len(bytes)))
            ELSE <<"U+FFFD">> \o decode(Tail(bytes))
  ELSE IF Head(bytes) \in ContinuationBytes
       THEN <<"U+FFFD">> \o decode(Tail(bytes))
  ELSE <<Head(bytes)>> \o decode(Tail(bytes))

\* the frames written to the sink, each the `data: ...\n\n` line of this object
Frame(object, model, hasContent, content, finish_reason) ==
  [object |-> object, model |-> model, hasContent |-> hasContent,
   content |-> content, finish_reason |-> finish_reason]

\* returnChunk: delta {content: chunk}, finish_reason null
deltaFrame(model, chunk) ==
  Frame("chat.completion.chunk", model, TRUE, chunk, "null")

\* finalChunk: delta {}, finish_reason "stop"
finalFrame(model) == Frame("chat.completion.chunk", model, FALSE, <<>>, "stop")

\* "data: [DONE]\n\n"
doneSentinel == Frame("[DONE]", "none", FALSE, <<>>, "none")

\* ------------------------------------ ChatHandler: the request arrives

MaxReads == 2

Init ==
  /\ cText = <<>>
  /\ cMax = 0
  /\ cFn = "none"
  /\ cPc = "off"
  /\ cLoop = NoLoop
  /\ cResult = <<>>
  /\ cArg = <<>>
  /\ cRebuilt = <<>>
  /\ bodyId \in [Requests -> DOMAIN Bodies]
  /\ HandlerIdle

\* mutant: the run is logged as started before the request is validated
ReceiveInvalid_Logged(r) ==
  /\ pc[r] = "idle"
  /\ messagesInvalid(Body(r)) \/ modelOf(Body(r)) \notin SupportedModels
  /\ pc' = [pc EXCEPT ![r] = "done"]
  /\ metrics' = failTranslation(startTranslation(metrics, r, 0, modelOf(Body(r))), r,
                                Error("invalid request"))
  /\ response' = [response EXCEPT ![r] =
       IF messagesInvalid(Body(r))
       THEN ErrorResponse("Messages field is required and must be an array", 0)
       ELSE ErrorResponse("Model is not supported", 0)]
  /\ UNCHANGED <<bodyId, calls, run, pump, source, sink>>
  /\ UNCHANGED chunkVars

\* handleChatCompletionsWithBody: the messages or the model are rejected
ReceiveInvalid(r) ==
  /\ pc[r] = "idle"
  /\ messagesInvalid(Body(r)) \/ modelOf(Body(r)) \notin SupportedModels
  /\ pc' = [pc EXCEPT ![r] = "done"]
  /\ response' = [response EXCEPT ![r] =
       IF messagesInvalid(Body(r))
       THEN ErrorResponse("Messages field is required and must be an array", 0)
       ELSE ErrorResponse("Model is not supported", 0)]
  /\ UNCHANGED <<bodyId, metrics, calls, run, pump, source, sink>>
  /\ UNCHANGED chunkVars

\* handleChatCompletionsWithBody: summing the content lengths throws before
\* startTranslation; the catch block calls failTranslation and answers 500
ReceiveThrows(r) ==
  /\ pc[r] = "idle"
  /\ ~messagesInvalid(Body(r))
  /\ modelOf(Body(r)) \in SupportedModels
  /\ contentThrows(Body(r).messages)
  /\ metrics' = failTranslation(metrics, r, Error("TypeError"))
  /\ response' = [response EXCEPT ![r] = ErrorResponse("Internal server error", 500)]
  /\ pc' = [pc EXCEPT ![r] = "done"]
  /\ UNCHANGED <<bodyId, calls, run, pump, source, sink>>
  /\ UNCHANGED chunkVars

Accepted(r) ==
  /\ pc[r] = "idle"
  /\ ~messagesInvalid(Body(r))
  /\ modelOf(Body(r)) \in SupportedModels
  /\ ~contentThrows(Body(r).messages)

Started(r) ==
  startTranslation(metrics, r, Prepared[bodyId[r]].totalTextLength, modelOf(Body(r)))

\* handleChatCompletionsWithBody, not chunked, stream falsy:
\* handleNonStreamingChat up to its await of sendChatRequest(requestBody, false)
ReceiveSingle(r) ==
  /\ Accepted(r)
  /\ ~shouldChunk(Prepared[bodyId[r]].totalTextLength)
  /\ ~Body(r).stream
  /\ metrics' = Started(r)
  /\ calls' = [calls EXCEPT ![r] = issue(@, -1, FALSE)]
  /\ pc' = [pc EXCEPT ![r] = "single_call"]
  /\ UNCHANGED <<bodyId, response, run, pump, source, sink>>
  /\ UNCHANGED chunkVars

\* mutant: the stream flag is looked at before the length
ReceiveStreaming_BeforeLength(r) ==
  /\ Accepted(r)
  /\ Body(r).stream
  /\ metrics' = Started(r)
  /\ calls' = [calls EXCEPT ![r] = issue(@, -1, TRUE)]
  /\ pc' = [pc EXCEPT ![r] = "stream_call"]
  /\ UNCHANGED <<bodyId, response, run, pump, source, sink>>
  /\ UNCHANGED chunkVars

\* handleChatCompletionsWithBody, not chunked, stream truthy:
\* handleStreamingChat up to its await of sendChatRequest(requestBody, true)
ReceiveStreaming(r) ==
  /\ Accepted(r)
  /\ ~shouldChunk(Prepared[bodyId[r]].totalTextLength)
  /\ Body(r).stream
  /\ metrics' = Started(r)
  /\ calls' = [calls EXCEPT ![r] = issue(@, -1, TRUE)]
  /\ pc' = [pc EXCEPT ![r] = "stream_call"]
  /\ UNCHANGED <<bodyId, response, run, pump, source, sink>>
  /\ UNCHANGED chunkVars

\* mutant: the calls of all chunks are started together
ReceiveChunked_AllAtOnce(r) ==
  /\ Accepted(r)
  /\ shouldChunk(Prepared[bodyId[r]].totalTextLength)
  /\ Len(Chunks(r)) > 1
  /\ run' = [run EXCEPT ![r] =
       [isSubtitles |-> Prepared[bodyId[r]].isSubtitles, n |-> Len(Chunks(r)),
        i |-> 1, translatedChunks |-> <<>>]]
  /\ metrics' = Started(r)
  /\ calls' = [calls EXCEPT ![r] =
       issue(issue(@, Chunks(r)[1].index, FALSE), Chunks(r)[2].index, FALSE)]
  /\ pc' = [pc EXCEPT ![r] = "chunk_call"]
  /\ UNCHANGED <<bodyId, response, pump, source, sink>>
  /\ UNCHANGED chunkVars

\* handleChatCompletionsWithBody, chunked: handleChunkedTranslation up to the
\* await of the first chunk's handleNonStreamingChat (with no chunk at all
\* the loop is skipped and the run completes at once)
ReceiveChunked(r) ==
  /\ Accepted(r)
  /\ shouldChunk(Prepared[bodyId[r]].totalTextLength)
  /\ LET isSubtitles == Prepared[bodyId[r]].isSubtitles
         n == Len(Chunks(r))
     IN /\ run' = [run EXCEPT ![r] =
                [isSubtitles |-> isSubtitles, n |-> n, i |-> 0, translatedChunks |-> <<>>]]
        /\ IF n > 0
           THEN /\ metrics' = Started(r)
                /\ calls' = [calls EXCEPT ![r] = issue(@, Chunks(r)[1].index, FALSE)]
                /\ pc' = [pc EXCEPT ![r] = "chunk_call"]
                /\ UNCHANGED response
           ELSE /\ metrics' = completeTranslation(Started(r), r, n)
                /\ response' = [response EXCEPT ![r] =
                     SuccessResponse(finalTranslation(<<>>, isSubtitles))]
                /\ pc' = [pc EXCEPT ![r] = "done"]
                /\ UNCHANGED calls
  /\ UNCHANGED <<bodyId, pump, source, sink>>
  /\ UNCHANGED chunkVars

\* ------------------------------------------ ChatHandler: the single call

\* handleNonStreamingChat with a requestId: the call and response.json() succeed
SingleCallOk(r) ==
  /\ pc[r] = "single_call"
  /\ \E data \in BackendResults :
       /\ response' = [response EXCEPT ![r] = SuccessResponse(transformToOpenAIFormat(data))]
       /\ calls' = [calls EXCEPT ![r] = settle(@, "ok", data)]
  /\ metrics' = completeTranslation(metrics, r, -1)
  /\ pc' = [pc EXCEPT ![r] = "done"]
  /\ UNCHANGED <<bodyId, run, pump, source, sink>>
  /\ UNCHANGED chunkVars

\* handleNonStreamingChat with a requestId: the call throws, the catch block runs
SingleCallFail(r) ==
  /\ pc[r] = "single_call"
  /\ \E e \in BackendFailures :
       /\ metrics' = failTranslation(metrics, r, e)
       /\ calls' = [calls EXCEPT ![r] = settleFailed(@, e)]
  /\ response' = [response EXCEPT ![r] =
       ErrorResponse("Failed to process chat completion", 500)]
  /\ pc' = [pc EXCEPT ![r] = "done"]
  /\ UNCHANGED <<bodyId, run, pump, source, sink>>
  /\ UNCHANGED chunkVars

\* ------------------------------------------- ChatHandler: the chunked run

\* the Response handleNonStreamingChat (called without a requestId) hands
\* back for one chunk: success with the transformed content, or the 500 of
\* its catch block
chunkResponse(ok, data) ==
  IF ok THEN SuccessResponse(transformToOpenAIFormat(data))
  ELSE ErrorResponse("Failed to process chat completion", 500)

\* mutant: the chunk's call is made with the run's requestId, so its
\* handleNonStreamingChat records the completion itself
ChunkCallOkMore_Recorded(r) ==
  /\ pc[r] = "chunk_call"
  /\ run[r].i < run[r].n - 1
  /\ \E data \in BackendResults :
       /\ chunkResponse(TRUE, data).ok
       /\ run' = [run EXCEPT ![r].translatedChunks = Append(@, chunkResponse(TRUE, data).content)]
       /\ calls' = [calls EXCEPT ![r] = settle(@, "ok", data)]
  /\ metrics' = completeTranslation(metrics, r, -1)
  /\ pc' = [pc EXCEPT ![r] = "chunk_delay"]
  /\ UNCHANGED <<bodyId, response, pump, source, sink>>
  /\ UNCHANGED chunkVars

\* the chunk's call succeeded and more chunks follow: its text is pushed
\* and the 100 ms delay awaited
ChunkCallOkMore(r) ==
  /\ pc[r] = "chunk_call"
  /\ run[r].i < run[r].n - 1
  /\ \E data \in BackendResults :
       /\ chunkResponse(TRUE, data).ok
       /\ run' = [run EXCEPT ![r].translatedChunks = Append(@, chunkResponse(TRUE, data).content)]
       /\ calls' = [calls EXCEPT ![r] = settle(@, "ok", data)]
  /\ pc' = [pc EXCEPT ![r] = "chunk_delay"]
  /\ UNCHANGED <<bodyId, metrics, response, pump, source, sink>>
  /\ UNCHANGED chunkVars

\* the last chunk's call succeeded: the texts are joined, the run completes
ChunkCallOkLast(r) ==
  /\ pc[r] = "chunk_call"
  /\ ~(run[r].i < run[r].n - 1)
  /\ \E data \in BackendResults :
       LET translatedChunks == Append(run[r].translatedChunks, chunkResponse(TRUE, data).content)
       IN /\ chunkResponse(TRUE, data).ok
          /\ run' = [run EXCEPT ![r].translatedChunks = translatedChunks]
          /\ response' = [response EXCEPT ![r] =
               SuccessResponse(finalTranslation(translatedChunks, run[r].isSubtitles))]
          /\ calls' = [calls EXCEPT ![r] = settle(@, "ok", data)]
  /\ metrics' = completeTranslation(metrics, r, Len(Chunks(r)))
  /\ pc' = [pc EXCEPT ![r] = "done"]
  /\ UNCHANGED <<bodyId, pump, source, sink>>
  /\ UNCHANGED chunkVars

\* mutant: a failed chunk ends the run with what was translated so far
ChunkCallFail_Partial(r) ==
  /\ pc[r] = "chunk_call"
  /\ metrics' = completeTranslation(metrics, r, Len(run[r].translatedChunks))
  /\ calls' = [calls EXCEPT ![r] = settle(@, "failed", <<>>)]
  /\ response' = [response EXCEPT ![r] =
       SuccessResponse(finalTranslation(run[r].translatedChunks, run[r].isSubtitles))]
  /\ pc' = [pc EXCEPT ![r] = "done"]
  /\ UNCHANGED <<bodyId, run, pump, source, sink>>
  /\ UNCHANGED chunkVars

\* the chunk's call failed: handleNonStreamingChat answers 500, the loop
\* throws, the catch block of handleChunkedTranslation runs
ChunkCallFail(r) ==
  /\ pc[r] = "chunk_call"
  /\ \E e \in BackendFailures :
       /\ ~chunkResponse(FALSE, <<>>).ok
       /\ metrics' = failTranslation(metrics, r,
                                     ChunkError(run[r].i, chunkResponse(FALSE, <<>>).status))
       /\ calls' = [calls EXCEPT ![r] = settleFailed(@, e)]
  /\ response' = [response EXCEPT ![r] =
       ErrorResponse("Failed to process chunked translation", 500)]
  /\ pc' = [pc EXCEPT ![r] = "done"]
  /\ UNCHANGED <<bodyId, run, pump, source, sink>>
  /\ UNCHANGED chunkVars

\* the delay is over: the next iteration runs up to its await
ChunkDelayElapsed(r) ==
  /\ pc[r] = "chunk_delay"
  /\ run' = [run EXCEPT ![r].i = @ + 1]
  /\ calls' = [calls EXCEPT ![r] = issue(@, Chunks(r)[run[r].i + 2].index, FALSE)]
  /\ pc' = [pc EXCEPT ![r] = "chunk_call"]
  /\ UNCHANGED <<bodyId, metrics, response, pump, source, sink>>
  /\ UNCHANGED chunkVars

\* ----------------------------------------- ChatHandler: the streamed call

\* sendChatRequest(requestBody, true) throws: the outer catch block
StreamCallFail(r) ==
  /\ pc[r] = "stream_call"
  /\ \E e \in BackendFailures :
       /\ metrics' = failTranslation(metrics, r, e)
       /\ calls' = [calls EXCEPT ![r] = settleFailed(@, e)]
  /\ response' = [response EXCEPT ![r] =
       ErrorResponse("Failed to process streaming chat completion", 500)]
  /\ pc' = [pc EXCEPT ![r] = "done"]
  /\ UNCHANGED <<bodyId, run, pump, source, sink>>
  /\ UNCHANGED chunkVars

\* mutant: the stream without a body is ended with the [DONE] sentinel
StreamCallNoBody_Sentinel(r) ==
  /\ pc[r] = "stream_call"
  /\ calls' = [calls EXCEPT ![r] = settle(@, "ok", <<>>)]
  /\ source' = [source EXCEPT ![r].body = "absent"]
  /\ sink' = [sink EXCEPT ![r] =
       [state |-> "closed", frames |-> <<doneSentinel>>, reason |-> NoError]]
  /\ response' = [response EXCEPT ![r] = StreamResponse]
  /\ pc' = [pc EXCEPT ![r] = "done"]
  /\ UNCHANGED <<bodyId, metrics, run, pump>>
  /\ UNCHANGED chunkVars

\* the backend response has no body: the writer is closed and the
\* event-stream response returned
StreamCallNoBody(r) ==
  /\ pc[r] = "stream_call"
  /\ calls' = [calls EXCEPT ![r] = settle(@, "ok", <<>>)]
  /\ source' = [source EXCEPT ![r].body = "absent"]
  /\ sink' = [sink EXCEPT ![r] = [state |-> "closed", frames |-> <<>>, reason |-> NoError]]
  /\ response' = [response EXCEPT ![r] = StreamResponse]
  /\ pc' = [pc EXCEPT ![r] = "done"]
  /\ UNCHANGED <<bodyId, metrics, run, pump>>
  /\ UNCHANGED chunkVars

\* mutant: the handler awaits the task before it returns the response
StreamCallBody_Awaited(r) ==
  /\ pc[r] = "stream_call"
  /\ calls' = [calls EXCEPT ![r] = settle(@, "ok", <<>>)]
  /\ sink' = [sink EXCEPT ![r] = [state |-> "open", frames |-> <<>>, reason |-> NoError]]
  /\ pump' = [pump EXCEPT ![r] = [NoPump EXCEPT !.state = "reading"]]
  /\ source' = [source EXCEPT ![r].reads = 1, ![r].body = "present"]
  /\ pc' = [pc EXCEPT ![r] = "stream_pump"]
  /\ UNCHANGED <<bodyId, metrics, run, response>>
  /\ UNCHANGED chunkVars

\* the backend response has a body: the detached task starts (it runs up
\* to its first reader.read()) and the event-stream response is returned
StreamCallBody(r) ==
  /\ pc[r] = "stream_call"
  /\ calls' = [calls EXCEPT ![r] = settle(@, "ok", <<>>)]
  /\ sink' = [sink EXCEPT ![r] = [state |-> "open", frames |-> <<>>, reason |-> NoError]]
  /\ pump' = [pump EXCEPT ![r] = [NoPump EXCEPT !.state = "reading"]]
  /\ source' = [source EXCEPT ![r].reads = 1, ![r].body = "present"]
  /\ response' = [response EXCEPT ![r] = StreamResponse]
  /\ pc' = [pc EXCEPT ![r] = "done"]
  /\ UNCHANGED <<bodyId, metrics, run>>
  /\ UNCHANGED chunkVars

\* mutant: the catch block aborts the writer and records nothing
PumpCatch_Unrecorded(r, e) ==
  /\ metrics' = metrics
  /\ sink' = [sink EXCEPT ![r].state = "aborted", ![r].reason = e]
  /\ pump' = [pump EXCEPT ![r].state = "failed", ![r].pending = <<>>, ![r].error = e]

\* the catch block of the detached task: failTranslation, writer.abort(error)
PumpCatch(r, e) ==
  /\ metrics' = failTranslation(metrics, r, e)
  /\ sink' = [sink EXCEPT ![r].state = "aborted", ![r].reason = e]
  /\ pump' = [pump EXCEPT ![r].state = "failed", ![r].pending = <<>>, ![r].error = e]

\* reader.read() gives a piece: it is decoded, framed, and the write awaited
SourceDeliver(r) ==
  /\ pump[r].state = "reading"
  /\ Len(source[r].delivered) < MaxReads
  /\ \E piece \in Pieces :
       /\ source' = [source EXCEPT ![r].delivered = Append(@, piece)]
       /\ pump' = [pump EXCEPT ![r].state = "writing_delta",
                               ![r].allChunks = @ \o decode(piece),
                               ![r].pending = <<deltaFrame(modelOf(Body(r)), decode(piece))>>]
  /\ UNCHANGED <<bodyId, pc, metrics, response, calls, run, sink>>
  /\ UNCHANGED chunkVars

\* reader.read() gives done: the loop is left, the final frame's write awaited
SourceEnd(r) ==
  /\ pump[r].state = "reading"
  /\ source' = [source EXCEPT ![r].ended = TRUE]
  /\ pump' = [pump EXCEPT ![r].state = "writing_final",
                          ![r].pending = <<finalFrame(modelOf(Body(r)))>>]
  /\ UNCHANGED <<bodyId, pc, metrics, response, calls, run, sink>>
  /\ UNCHANGED chunkVars

\* reader.read() rejects
SourceError(r) ==
  /\ pump[r].state = "reading"
  /\ PumpCatch(r, Error("source read failed"))
  /\ UNCHANGED <<bodyId, pc, response, calls, run, source>>
  /\ UNCHANGED chunkVars

Writing == {"writing_delta", "writing_final", "writing_done"}

\* mutant: the writer is closed right after the final frame
afterWrite_NoSentinel(state) ==
  IF state = "writing_delta" THEN "reading" ELSE "closing"

\* what the task does once a write is accepted: the next read after a delta
\* frame, the [DONE] write after the final frame, writer.close() after [DONE]
afterWrite(state) ==
  IF state = "writing_delta" THEN "reading"
  ELSE IF state = "writing_final" THEN "writing_done"
  ELSE "closing"

\* writer.write(frame) resolves: the frame is in the sink
WriteAccepted(r) ==
  /\ pump[r].state \in Writing
  /\ sink' = [sink EXCEPT ![r].frames = Append(@, pump[r].pending[1])]
  /\ pump' = [pump EXCEPT ![r].state = afterWrite(pump[r].state),
                          ![r].pending = IF afterWrite(pump[r].state) = "writing_done"
                                         THEN <<doneSentinel>> ELSE <<>>]
  /\ source' = [source EXCEPT ![r].reads =
                  IF afterWrite(pump[r].state) = "reading" THEN @ + 1 ELSE @]
  /\ UNCHANGED <<bodyId, pc, metrics, response, calls, run>>
  /\ UNCHANGED chunkVars

\* writer.write(frame) rejects (the consumer is gone, the stream is errored)
WriteRejected(r) ==
  /\ pump[r].state \in Writing
  /\ PumpCatch(r, Error("write rejected"))
  /\ UNCHANGED <<bodyId, pc, response, calls, run, source>>
  /\ UNCHANGED chunkVars

\* writer.close() resolves: completeTranslation(requestId)
CloseResolved(r) ==
  /\ pump[r].state = "closing"
  /\ sink' = [sink EXCEPT ![r].state = "closed"]
  /\ metrics' = completeTranslation(metrics, r, -1)
  /\ pump' = [pump EXCEPT ![r].state = "finished"]
  /\ UNCHANGED <<bodyId, pc, response, calls, run, source>>
  /\ UNCHANGED chunkVars

\* writer.close() rejects
CloseRejected(r) ==
  /\ pump[r].state = "closing"
  /\ PumpCatch(r, Error("close rejected"))
  /\ UNCHANGED <<bodyId, pc, response, calls, run, source>>
  /\ UNCHANGED chunkVars

Next ==
  \/ \E r \in Requests : ReceiveInvalid(r)
  \/ \E r \in Requests : ReceiveThrows(r)
  \/ \E r \in Requests : ReceiveSingle(r)
  \/ \E r \in Requests : ReceiveStreaming(r)
  \/ \E r \in Requests : ReceiveChunked(r)
  \/ \E r \in Requests : SingleCallOk(r)
  \/ \E r \in Requests : SingleCallFail(r)
  \/ \E r \in Requests : ChunkCallOkMore(r)
  \/ \E r \in Requests : ChunkCallOkLast(r)
  \/ \E r \in Requests : ChunkCallFail(r)
  \/ \E r \in Requests : ChunkDelayElapsed(r)
  \/ \E r \in Requests : StreamCallFail(r)
  \/ \E r \in Requests : StreamCallNoBody(r)
  \/ \E r \in Requests : StreamCallBody(r)
  \/ \E r \in Requests : SourceDeliver(r)
  \/ \E r \in Requests : SourceEnd(r)
  \/ \E r \in Requests : SourceError(r)
  \/ \E r \in Requests : WriteAccepted(r)
  \/ \E r \in Requests : WriteRejected(r)
  \/ \E r \in Requests : CloseResolved(r)
  \/ \E r \in Requests : CloseRejected(r)

Spec == Init /\ [][Next]_vars

\* what goes on for a request once it is received: its backend calls
\* return or fail, the delay between chunks elapses, its source stream
\* delivers, ends or errors, its writes and its close resolve or reject
Progress(r) ==
  \/ SingleCallOk(r)
  \/ SingleCallFail(r)
  \/ ChunkCallOkMore(r)
  \/ ChunkCallOkLast(r)
  \/ ChunkCallFail(r)
  \/ ChunkDelayElapsed(r)
  \/ StreamCallFail(r)
  \/ StreamCallNoBody(r)
  \/ StreamCallBody(r)
  \/ SourceDeliver(r)
  \/ SourceEnd(r)
  \/ SourceError(r)
  \/ WriteAccepted(r)
  \/ WriteRejected(r)
  \/ CloseResolved(r)
  \/ CloseRejected(r)

\* every awaited promise of every request settles in the end
SpecLive == Init /\ [][Next]_vars /\ \A r \in Requests : WF_vars(Progress(r))

\* -------------------------------------------------- claims on the handler

\* the request passed validation and its total length exceeds the threshold
ChunkingTriggered(r) ==
  /\ pc[r] # "idle"
  /\ metrics[r].present
  /\ totalTextLength(Body(r).messages) > 2000

IsPrefix(s, t) == Len(s) <= Len(t) /\ SubSeq(t, 1, Len(s)) = s

\* C1: in a chunked run the backend calls carry the segments in index order
\* (the j-th call is segment j-1) and only the latest call may be
\* unresolved: the call of segment i+1 starts after segment i's has resolved.
C1_SequentialInIndexOrder ==
  \A r \in Requests :
    ChunkingTriggered(r) =>
      \A j \in 1..Len(calls[r]) :
        /\ calls[r][j].seg = j - 1
        /\ j < Len(calls[r]) => calls[r][j].outcome # "pending"

\* the third segment's call of a run is under way
C1_Witness ==
  \E r \in Requests :
    /\ ChunkingTriggered(r)
    /\ Len(calls[r]) = 3
    /\ calls[r][3].outcome = "pending"

\* C2: once the call of a segment has failed it is the run's last call, the
\* handler has returned, the lifecycle entry is failed, and the response is
\* an error that carries nothing of the segments translated before.
C2_FailureAbortsRun ==
  \A r \in Requests :
    ChunkingTriggered(r) =>
      \A k \in 1..Len(calls[r]) :
        calls[r][k].outcome = "failed" =>
          /\ k = Len(calls[r])
          /\ pc[r] = "done"
          /\ metrics[r].status = "failed"
          /\ response[r].kind = "error"
          /\ ~response[r].ok
          /\ response[r].content = <<>>

\* the second of three segment calls failed after the first was translated
C2_Witness ==
  \E r \in Requests :
    /\ ChunkingTriggered(r)
    /\ run[r].n = 3
    /\ Len(calls[r]) = 2
    /\ calls[r][2].outcome = "failed"
    /\ Len(run[r].translatedChunks) = 1
    /\ pc[r] = "done"

\* the frames a source that delivered these pieces and ended amounts to
C3_FramesFor(r) ==
  [j \in 1..Len(source[r].delivered) |->
     [object |-> "chat.completion.chunk", model |-> modelOf(Body(r)), hasContent |-> TRUE,
      content |-> decode(source[r].delivered[j]), finish_reason |-> "null"]]
  \o << [object |-> "chat.completion.chunk", model |-> modelOf(Body(r)), hasContent |-> FALSE,
         content |-> <<>>, finish_reason |-> "stop"],
        [object |-> "[DONE]", model |-> "none", hasContent |-> FALSE,
         content |-> <<>>, finish_reason |-> "none"] >>

C3_DeltaCount(r) ==
  Cardinality({j \in 1..Len(sink[r].frames) : sink[r].frames[j].hasContent})

\* C3: the sink of a streamed request holds, in order, one delta frame per
\* piece its own source delivered, with that piece's decoded text; a read is
\* requested only after the frames of all earlier reads are written; and
\* when the task has finished the sink holds exactly the delta frames, one
\* final frame with finish_reason "stop" and the [DONE] sentinel, and is closed.
C3_StreamFrameSequence ==
  \A r \in Requests :
    pump[r].state # "off" =>
      /\ IsPrefix(sink[r].frames, C3_FramesFor(r))
      /\ source[r].reads <= C3_DeltaCount(r) + 1
      /\ pump[r].state = "finished" =>
           /\ source[r].ended
           /\ sink[r].frames = C3_FramesFor(r)
           /\ sink[r].state = "closed"

\* two streams ran to their end side by side, one of a single piece, the
\* other of other pieces
C3_Witness ==
  \E r, q \in Requests :
    /\ r # q
    /\ pump[r].state = "finished"
    /\ Len(source[r].delivered) = 1
    /\ Len(sink[r].frames) = 3
    /\ pump[q].state = "finished"
    /\ Len(source[q].delivered) = 2
    /\ source[q].delivered[1] # source[r].delivered[1]

\* C4: a failed streaming task has aborted its sink with the error that
\* failed it and recorded that failure in the request's lifecycle entry; from
\* then on the frames in the sink stay as they are and none is added.
C4_PumpFailureAborts ==
  /\ [](\A r \in Requests :
          pump[r].state = "failed" =>
            /\ sink[r].state = "aborted"
            /\ sink[r].reason = pump[r].error
            /\ pump[r].error # NoError
            /\ metrics[r].status = "failed"
            /\ metrics[r].error = pump[r].error)
  /\ [][\A r \in Requests :
          pump[r].state = "failed" =>
            /\ sink'[r] = sink[r]
            /\ pump'[r] = pump[r]
            /\ metrics'[r] = metrics[r]]_vars

\* a write was rejected after a frame had been written
C4_Witness ==
  \E r \in Requests :
    /\ pump[r].state = "failed"
    /\ pump[r].error = Error("write rejected")
    /\ Len(sink[r].frames) >= 1
    /\ Len(source[r].delivered) = 2

\* C5: a valid request goes down the chunked path (per-segment calls)
\* exactly when the total length of its string contents exceeds 2000;
\* otherwise it makes a single call that carries no segment.
C5_ChunkThreshold ==
  \A r \in Requests :
    (pc[r] # "idle" /\ metrics[r].present) =>
      /\ calls[r] # <<>>
      /\ totalTextLength(Body(r).messages) > 2000 => calls[r][1].seg >= 0
      /\ totalTextLength(Body(r).messages) <= 2000 =>
           (Len(calls[r]) = 1 /\ calls[r][1].seg = -1 /\ run[r] = NoRun)

\* a request of exactly 2000 characters made its single call while one of
\* 2001 characters went through its segments
C5_Witness ==
  \E r, q \in Requests :
    /\ totalTextLength(Body(r).messages) = 2000
    /\ pc[r] = "done"
    /\ Len(calls[r]) = 1
    /\ totalTextLength(Body(q).messages) = 2001
    /\ pc[q] = "done"
    /\ Len(calls[q]) = 2

\* C6: when chunking triggers, the streaming task is never started, no
\* stream pair is set up, every backend call is non-streamed, and the
\* response is a chat.completion or an error, never an event stream.
C6_ChunkedNeverStreams ==
  \A r \in Requests :
    ChunkingTriggered(r) =>
      /\ pump[r] = NoPump
      /\ sink[r] = NoSink
      /\ source[r] = NoSource
      /\ \A j \in 1..Len(calls[r]) : ~calls[r][j].streaming
      /\ pc[r] = "done" => response[r].kind \in {"chat.completion", "error"}

\* a request that asked for streaming got the aggregated response
C6_Witness ==
  \E r \in Requests :
    /\ ChunkingTriggered(r)
    /\ Body(r).stream
    /\ pc[r] = "done"
    /\ response[r].kind = "chat.completion"

\* the content the backend's answer to the j-th call stands for
C7_Output(r, j) ==
  IF calls[r][j].reply = <<>> THEN NoResponseGenerated ELSE calls[r][j].reply

\* C7: when every segment call of a run has succeeded, the response content
\* is the outputs of the calls, one per segment, joined in order with two
\* newlines when the text was classified as structured and with one space
\* otherwise, and the lifecycle entry is completed with the segment count.
C7_JoinedOutputs ==
  \A r \in Requests :
    (/\ ChunkingTriggered(r)
     /\ pc[r] = "done"
     /\ \A j \in 1..Len(calls[r]) : calls[r][j].outcome = "ok") =>
      /\ Len(calls[r]) = Len(Chunks(r))
      /\ Len(run[r].translatedChunks) = Len(Chunks(r))
      /\ response[r].kind = "chat.completion"
      /\ response[r].content =
           join([j \in 1..Len(calls[r]) |-> C7_Output(r, j)],
                IF Prepared[bodyId[r]].isSubtitles
                THEN <<"\n", "\n">> ELSE <<" ">>)
      /\ metrics[r].status = "completed"
      /\ metrics[r].chunkCount = Len(Chunks(r))

\* a structured run of three segments completed, its outputs not all alike
C7_Witness ==
  \E r \in Requests :
    /\ ChunkingTriggered(r)
    /\ pc[r] = "done"
    /\ Prepared[bodyId[r]].isSubtitles
    /\ Len(calls[r]) = 3
    /\ metrics[r].status = "completed"
    /\ calls[r][1].reply = Hola
    /\ calls[r][2].reply = <<>>

\* ------------------------------------------------- claims on the chunkers

\* whether a blank-line separator (\n\n, or \r\n\r\n) starts at position p
BlankLineAt(text, p) ==
  \/ p + 1 <= Len(text) /\ SubSeq(text, p, p + 1) = <<"\n", "\n">>
  \/ p + 3 <= Len(text) /\ SubSeq(text, p, p + 3) = <<"\r", "\n", "\r", "\n">>

\* the text from position from on, with every blank-line separator (read
\* from the left, one after the other) written as \n\n
RECURSIVE SeparatorsNormalisedFrom(_, _)
SeparatorsNormalisedFrom(text, from) ==
  LET starts == {p \in from..Len(text) : BlankLineAt(text, p)}
      first == CHOOSE p \in starts : \A q \in starts : p <= q
      width == IF text[first] = "\n" THEN 2 ELSE 4
  IN IF starts = {} THEN SubSeq(text, from, Len(text))
     ELSE SubSeq(text, from, first - 1) \o <<"\n", "\n">>
          \o SeparatorsNormalisedFrom(text, first + width)

\* the text with every \r\n\r\n separator written as \n\n
SeparatorsNormalised(text) == SeparatorsNormalisedFrom(text, 1)

IsSingleWholeSegment(chunks, content) ==
  /\ Len(chunks) = 1
  /\ chunks[1].content = content
  /\ chunks[1].index = 0
  /\ chunks[1].totalChunks = 1

\* C8 as stated: a text no longer than the maximum gives, under chunkText and
\* chunkSubtitles alike, exactly one segment whose content equals the input,
\* with index 0 and totalChunks 1.
C8_WholeTextOneSegment ==
  (cPc = "returned" /\ Len(cText) <= cMax) => IsSingleWholeSegment(cResult, cText)

\* C8 amended: a text no longer than the maximum gives under chunkText exactly
\* one segment equal to the input (index 0, totalChunks 1); under
\* chunkSubtitles it gives no segment when the text is blank and otherwise
\* exactly one segment (index 0, totalChunks 1) whose content is the input
\* with its \r\n\r\n separators written as \n\n and its surrounding
\* whitespace trimmed.
C8_WholeTextAmended ==
  (cPc = "returned" /\ Len(cText) <= cMax) =>
     /\ cFn = "chunkText" => IsSingleWholeSegment(cResult, cText)
     /\ cFn = "chunkSubtitles" =>
          IF trim(cText) = <<>>
          THEN cResult = <<>>
          ELSE IsSingleWholeSegment(cResult, trim(SeparatorsNormalised(cText)))

\* chunkSubtitles returned, for a text no longer than the maximum, one
\* segment whose content is not the input as it was given
C8_Witness ==
  /\ cPc = "returned"
  /\ cFn = "chunkSubtitles"
  /\ Len(cText) <= cMax
  /\ Len(cResult) = 1
  /\ cResult[1].content # cText

\* C9: the returned segments carry the indices 0..n-1 in order, each the
\* same totalChunks = n (the number returned) and the same originalLength =
\* the length of the input, under both strategies.
C9_SegmentNumbering ==
  cPc = "returned" =>
    \A i \in 1..Len(cResult) :
      /\ cResult[i].index = i - 1
      /\ cResult[i].totalChunks = Len(cResult)
      /\ cResult[i].originalLength = Len(cText)

\* a chunkText run that went through the loop and returned three segments
C9_Witness ==
  /\ cPc = "returned"
  /\ cFn = "chunkText"
  /\ Len(cResult) >= 3

\* C10 as stated: every iteration of the while loop of chunkText moves the
\* window start strictly forward, whatever the text and the maximum size.
C10_WindowStartIncreases ==
  [][(cPc = "loop" /\ cLoop' # cLoop) => cLoop'.startIndex > cLoop.startIndex]_vars

\* the same for a maximum size of at least 1
C10_PositiveSizeProgress ==
  [][(cPc = "loop" /\ cLoop' # cLoop /\ cMax >= 1) => cLoop'.startIndex > cLoop.startIndex]_vars

\* C11 as stated: the text reconstructText rebuilds from the segments of a
\* text differs in length from that text by at most the lookahead, and for
\* chunkText it is the text itself.
C11_RoundTrip ==
  cPc = "reconstructed" =>
    /\ Abs(Len(cRebuilt) - Len(cText)) <= LOOKAHEAD
    /\ cFn = "chunkText" => cRebuilt = cText

\* the length part of C11 alone, for chunkText
C11_LengthWithinLookahead ==
  (cPc = "reconstructed" /\ cFn = "chunkText") =>
    Abs(Len(cRebuilt) - Len(cText)) <= LOOKAHEAD

\* the longest suffix of text1 that is a prefix of text2, no longer than bound
C16_LongestOverlap(text1, text2, bound) ==
  CHOOSE k \in 0..bound :
    /\ k > 0 => SubSeq(text1, Len(text1) - k + 1, Len(text1)) = SubSeq(text2, 1, k)
    /\ \A j \in (k + 1)..bound :
         SubSeq(text1, Len(text1) - j + 1, Len(text1)) # SubSeq(text2, 1, j)

\* the chunks handed to reconstructText, by index (the chunkers number them
\* 0..n-1)
C16_ByIndex == [i \in 1..Len(cArg) |-> CHOOSE c \in {cArg[j] : j \in 1..Len(cArg)} : c.index = i - 1]

\* the fold that matches each next segment against the text assembled so far
RECURSIVE C16_FoldOnAssembled(_, _, _)
C16_FoldOnAssembled(segments, i, result) ==
  IF i > Len(segments) THEN result
  ELSE LET next == segments[i].content
           k == C16_LongestOverlap(result, next,
                                   Min(Min(2 * OVERLAP_SIZE, Len(result)), Len(next)))
       IN C16_FoldOnAssembled(segments, i + 1, result \o SubSeq(next, k + 1, Len(next)))

\* the fold that matches each next segment against the segment before it
RECURSIVE C16_FoldOnPrevious(_, _, _)
C16_FoldOnPrevious(segments, i, result) ==
  IF i > Len(segments) THEN result
  ELSE LET next == segments[i].content
           prev == segments[i - 1].content
           k == C16_LongestOverlap(prev, next,
                                   Min(Min(2 * OVERLAP_SIZE, Len(prev)), Len(next)))
       IN C16_FoldOnPrevious(segments, i + 1, result \o SubSeq(next, k + 1, Len(next)))

\* C16 as stated: for two or more segments reconstructText is the left fold
\* over the segments in index order that drops from each next segment its
\* longest prefix that is a suffix of the text assembled so far, of length
\* at most min(2 x overlap size, assembled length, segment length).
C16_AssembledFold ==
  (cPc = "reconstructed" /\ Len(cArg) >= 2) =>
    cRebuilt = C16_FoldOnAssembled(C16_ByIndex, 2, C16_ByIndex[1].content)

\* C16 amended: for two or more segments reconstructText is the left fold
\* over the segments in index order that drops from each next segment its
\* longest prefix that is a suffix of the previous segment's content, of
\* length at most min(2 x overlap size, previous segment's length, segment
\* length), and appends the segment whole when there is none.
C16_PreviousFold ==
  (cPc = "reconstructed" /\ Len(cArg) >= 2) =>
    cRebuilt = C16_FoldOnPrevious(C16_ByIndex, 2, C16_ByIndex[1].content)

\* three or more segments, handed over last first, were reassembled to a
\* text that the fold on the assembled text does not give
C16_Witness ==
  /\ cPc = "reconstructed"
  /\ Len(cArg) >= 3
  /\ cArg[1].index > cArg[2].index
  /\ cRebuilt # C16_FoldOnAssembled(C16_ByIndex, 2, C16_ByIndex[1].content)

\* the members of a set of numbers in increasing order
C17_Ascending(S) == [i \in 1..Cardinality(S) |-> CHOOSE x \in S : Cardinality({y \in S : y <= x}) = i]

\* n blocks cut behind the blocks of K: the runs of consecutive blocks
C17_Groups(n, K) ==
  LET starts == C17_Ascending({1} \cup {k + 1 : k \in K})
  IN [g \in 1..Len(starts) |->
        [lo |-> starts[g], hi |-> IF g < Len(starts) THEN starts[g + 1] - 1 ELSE n]]

\* the content of a segment that holds the blocks of a run
C17_Content(blocks, group) == trim(join(SubSeq(blocks, group.lo, group.hi), <<"\n", "\n">>))

\* the runs whose segments are returned: a blank last run gives no segment
C17_Kept(blocks, K) ==
  LET groups == C17_Groups(Len(blocks), K)
  IN IF C17_Content(blocks, groups[Len(groups)]) = <<>>
     THEN SubSeq(groups, 1, Len(groups) - 1)
     ELSE groups

\* the returned segments are the runs cut behind the blocks of K, in order,
\* each run's blocks whole
C17_CutAt(blocks, K) ==
  /\ Len(cResult) = Len(C17_Kept(blocks, K))
  /\ \A i \in 1..Len(cResult) : cResult[i].content = C17_Content(blocks, C17_Kept(blocks, K)[i])

\* C17 as stated: the segments of chunkSubtitles are runs of whole blocks in
\* input order, and a segment longer than maxSize is one block by itself.
C17_WholeBlocksWithinSize ==
  (cPc = "returned" /\ cFn = "chunkSubtitles") =>
    \E K \in SUBSET (1..(Len(splitBlocks(cText)) - 1)) :
      /\ C17_CutAt(splitBlocks(cText), K)
      /\ \A i \in 1..Len(cResult) :
           Len(cResult[i].content) > cMax =>
             C17_Kept(splitBlocks(cText), K)[i].lo = C17_Kept(splitBlocks(cText), K)[i].hi

\* the part of C17 about whole blocks in input order, by itself
C17_WholeBlocksInOrder ==
  (cPc = "returned" /\ cFn = "chunkSubtitles") =>
    \E K \in SUBSET (1..(Len(splitBlocks(cText)) - 1)) : C17_CutAt(splitBlocks(cText), K)

\* the segment the last iteration of the while loop pushed
C18_Pushed == cLoop'.chunks[Len(cLoop'.chunks)].content

C20_ScenarioThreeSegments ==
  /\ \A i \in 1..Len(cLoop.chunks) : Len(cLoop.chunks[i].content) <= cMax + LOOKAHEAD
  /\ cFn = "chunkText" =>
       \A i \in 1..Len(cResult) : Len(cResult[i].content) <= cMax + LOOKAHEAD
  /\ (Len(cText) = ScenarioLength /\ cMax = MAX_CHUNK_SIZE) =>
       /\ Len(cLoop.chunks) <= 3
       /\ (cFn = "chunkText" /\ cPc = "returned") =>
            /\ Len(cResult) = 3
            /\ \A i \in 1..3 : cResult[i].totalChunks = 3

\* the scenario text gave three segments, the first two cut at sentence
\* ends behind their windows' targets and so longer than MAX_CHUNK_SIZE
C20_Witness ==
  /\ cPc = "returned"
  /\ cFn = "chunkText"
  /\ Len(cText) = ScenarioLength
  /\ Len(cResult) = 3
  /\ Len(cResult[1].content) > MAX_CHUNK_SIZE
  /\ Len(cResult[2].content) > MAX_CHUNK_SIZE

\* ----------------------------------------- further claims on the handler

\* C12: when the backend response of a streamed request has no body, the
\* sink is closed with no frame in it, the streaming task is never started
\* and no read is made, and the caller holds a normal event-stream response.
C12_NoBodyClosesEmpty ==
  \A r \in Requests :
    source[r].body = "absent" =>
      /\ sink[r].state = "closed"
      /\ sink[r].frames = <<>>
      /\ pump[r] = NoPump
      /\ source[r].reads = 0
      /\ pc[r] = "done"
      /\ response[r].kind = "event-stream"
      /\ response[r].ok

\* a streamed request whose backend response had no body has returned
C12_Witness ==
  \E r \in Requests :
    /\ Body(r).stream
    /\ source[r].body = "absent"
    /\ pc[r] = "done"
    /\ calls[r][1].outcome = "ok"

\* C13: whenever the streaming task exists the handler has already returned
\* the event-stream response; at the return no frame has been written and
\* the source has not ended; and every frame is written after the return,
\* which leaves the returned response as it is.
C13_PumpDetached ==
  /\ [](\A r \in Requests :
          pump[r].state # "off" => (pc[r] = "done" /\ response[r] = StreamResponse))
  /\ [][\A r \in Requests :
          (pc[r] = "stream_call" /\ pc'[r] = "done" /\ source'[r].body = "present") =>
            /\ response'[r] = StreamResponse
            /\ pump'[r].state = "reading"
            /\ sink'[r].frames = <<>>
            /\ ~source'[r].ended]_vars
  /\ [][\A r \in Requests :
          sink'[r].frames # sink[r].frames =>
            (pc[r] = "done" /\ response'[r] = response[r])]_vars

\* the response has been returned while the first frame's write is still
\* waiting to be accepted
C13_Witness ==
  \E r \in Requests :
    /\ pc[r] = "done"
    /\ response[r] = StreamResponse
    /\ pump[r].state = "writing_delta"
    /\ sink[r].frames = <<>>
    /\ ~source[r].ended

\* the request's messages are missing or no array, or its model is not supported
C14_Invalid(r) == messagesInvalid(Body(r)) \/ modelOf(Body(r)) \notin SupportedModels

\* C14: a request with missing or non-array messages or an unsupported
\* model never has a lifecycle entry and never makes a backend call; once
\* handled, its response is an error.
C14_RejectedUnrecorded ==
  \A r \in Requests :
    C14_Invalid(r) =>
      /\ ~metrics[r].present
      /\ calls[r] = <<>>
      /\ pump[r] = NoPump
      /\ pc[r] \in {"idle", "done"}
      /\ pc[r] = "done" => (response[r].kind = "error" /\ ~response[r].ok)

\* a request with an unsupported model and one with non-array messages were
\* both rejected
C14_Witness ==
  \E r, q \in Requests :
    /\ ~messagesInvalid(Body(r))
    /\ modelOf(Body(r)) \notin SupportedModels
    /\ pc[r] = "done"
    /\ Body(q).hasMessages
    /\ ~Body(q).messagesIsArray
    /\ pc[q] = "done"

\* the handler or the streaming task of request r takes the step
C15_StepOf(r) == pc'[r] # pc[r] \/ pump'[r] # pump[r]

\* C15: under every interleaving of the requests, a lifecycle entry changes
\* only in a step of its own request and a step of one request leaves the
\* entries of all others as they are; an entry is created only by the start
\* event of its request; and the failure recorded for an id that has no
\* entry creates none.
C15_OwnEntryOnly ==
  /\ [][\A q \in Requests : metrics'[q] # metrics[q] => C15_StepOf(q)]_vars
  /\ [][\A r, q \in Requests : (r # q /\ C15_StepOf(r)) => metrics'[q] = metrics[q]]_vars
  /\ [][\A q \in Requests :
          (~metrics[q].present /\ metrics'[q].present) =>
            (pc[q] = "idle" /\ metrics'[q].status = "started")]_vars
  /\ [](\A q \in Requests :
          (pc[q] = "done" /\ response[q].message = "Internal server error") =>
            ~metrics[q].present)

\* the failure of a request that had no entry was recorded while another
\* request's entry was in the map
C15_Witness ==
  \E r, q \in Requests :
    /\ r # q
    /\ pc[r] = "done"
    /\ response[r].message = "Internal server error"
    /\ ~metrics[r].present
    /\ metrics[q].present
    /\ metrics[q].status = "started"

\* C19 as stated: when a segment's call fails in a chunked run, the error
\* recorded in the request's lifecycle entry is the error that call threw.
C19_OriginatingError ==
  \A r \in Requests :
    (/\ ChunkingTriggered(r)
     /\ calls[r] # <<>>
     /\ calls[r][Len(calls[r])].outcome = "failed") =>
      metrics[r].error = calls[r][Len(calls[r])].error

\* ------------------------------------------ further claims on the chunkers

\* the blocks of the text, in input order, joined by double newlines
C21_JoinedBlocks == join(splitBlocks(cText), <<"\n", "\n">>)

\* chunkSubtitles returned for a structured text whose joined blocks fit
C21_Fits ==
  /\ cPc = "returned"
  /\ cFn = "chunkSubtitles"
  /\ Len(C21_JoinedBlocks) <= cMax
  /\ detectSubtitles(cText)

\* C21 as stated: a structured text whose blocks, joined by double newlines,
\* fit within the maximum gives exactly one segment whose content is the
\* blocks in input order joined by double newlines.
C21_FittingBlocksJoined ==
  C21_Fits => (Len(cResult) = 1 /\ cResult[1].content = C21_JoinedBlocks)

\* C21 amended: such a text gives exactly one segment whose content is the
\* blocks in input order joined by double newlines, with the white space
\* before the first and behind the last block removed.
C21_FittingBlocksTrimmed ==
  C21_Fits => (Len(cResult) = 1 /\ cResult[1].content = trim(C21_JoinedBlocks))

\* three blocks separated by \r\n\r\n and ended by a newline came back as
\* one segment at the size they just fit
C21_Witness ==
  /\ C21_Fits
  /\ Len(splitBlocks(cText)) = 3
  /\ Len(C21_JoinedBlocks) < Len(cText)
  /\ cMax < SUBTITLE_CHUNK_SIZE
  /\ Len(cResult) = 1
  /\ cResult[1].content # C21_JoinedBlocks

\* the five patterns, each said of the text as a whole
C22_HasTimestamp(text) ==
  \E p \in 1..(Len(text) - 11) :
    /\ text[p] \in Digits
    /\ LET w == SubSeq(text, p, p + 11)
       IN /\ \A k \in {1, 2, 4, 5, 7, 8, 10, 11, 12} : w[k] \in Digits
          /\ w[3] = ":" /\ w[6] = ":" /\ w[9] \in {",", "."}

C22_HasDigitLine(text) ==
  \E a \in 1..Len(text) :
    /\ text[a] \in Digits
    /\ a = 1 \/ text[a - 1] \in LineTerminators
    /\ \E b \in a..Len(text) :
         /\ \A k \in a..b : text[k] \in Digits
         /\ b = Len(text) \/ text[b + 1] \in LineTerminators

C22_HasArrow(text) ==
  \E p \in 1..(Len(text) - 2) : SubSeq(text, p, p + 2) = <<"-", "-", ">">>

C22_HasTag(text) ==
  \E a \in 1..Len(text) :
    /\ text[a] = "<"
    /\ \E b \in (a + 2)..Len(text) :
         text[b] = ">" /\ \A k \in (a + 1)..(b - 1) : text[k] # ">"

C22_HasBracket(text) ==
  \E a \in 1..Len(text) :
    /\ text[a] = "["
    /\ \E b \in (a + 2)..Len(text) :
         text[b] = "]" /\ \A k \in (a + 1)..(b - 1) : text[k] \in WordChars

C22_AnyPattern(text) ==
  \/ C22_HasTimestamp(text)
  \/ C22_HasDigitLine(text)
  \/ C22_HasArrow(text)
  \/ C22_HasTag(text)
  \/ C22_HasBracket(text)

\* C22: the handler takes a text as structured exactly when at least one of
\* the five patterns (timestamp, line of digits only, -->, angle-bracket
\* tag, bracketed annotation) matches somewhere in it, so always when it
\* contains -->; a structured text is chunked by chunkSubtitles with maximum
\* 1500, any other by chunkText with maximum 2000.
C22_StructureSelectsStrategy ==
  cPc = "chunked" =>
    /\ cFn \in {"chunkSubtitles", "chunkText"}
    /\ cFn = "chunkSubtitles" <=> C22_AnyPattern(cText)
    /\ C22_HasArrow(cText) => cFn = "chunkSubtitles"
    /\ cFn = "chunkSubtitles" => (cMax = 1500 /\ cResult = chunkSubtitles(cText, 1500))
    /\ cFn = "chunkText" => (cMax = 2000 /\ cResult = chunkText(cText, 2000))

\* a text whose only pattern is the arrow was chunked as subtitles
C22_Witness ==
  /\ cPc = "chunked"
  /\ cFn = "chunkSubtitles"
  /\ C22_HasArrow(cText)
  /\ ~C22_HasTimestamp(cText)
  /\ ~C22_HasDigitLine(cText)
  /\ ~C22_HasTag(cText)
  /\ ~C22_HasBracket(cText)

\* the contents of the chunks, one behind the other
C23_Concatenated(chunks) == join([i \in 1..Len(chunks) |-> chunks[i].content], <<>>)

\* the segments pushed so far cover the text up to the next window's start,
\* and the returned segments cover the text
C23_Tiled ==
  /\ cPc = "loop" =>
       C23_Concatenated(cLoop.chunks) = SubSeq(cText, 1, cLoop.startIndex)
  /\ (cPc = "returned" /\ cFn = "chunkText") => C23_Concatenated(cResult) = cText

\* C23 as stated: the segments of chunkText tile the text (each starts where
\* the one before it ended, and one behind the other they are the text) and
\* every segment is non-empty.
C23_SegmentsTileNonEmpty ==
  /\ C23_Tiled
  /\ cPc = "loop" => \A i \in 1..Len(cLoop.chunks) : cLoop.chunks[i].content # <<>>
  /\ (cPc = "returned" /\ cFn = "chunkText") =>
       \A i \in 1..Len(cResult) : cResult[i].content # <<>>

\* the tiling part of C23 by itself
C23_SegmentsTile == C23_Tiled

\* C23 for a non-empty text and a maximum size of at least 1
C23_NonEmptyWhenSized ==
  (cMax >= 1 /\ cText # <<>>) =>
    /\ cPc = "loop" => \A i \in 1..Len(cLoop.chunks) : cLoop.chunks[i].content # <<>>
    /\ (cPc = "returned" /\ cFn = "chunkText") =>
         \A i \in 1..Len(cResult) : cResult[i].content # <<>>

\* ------------------------------------------------ claims on the lifecycle

\* C24 as stated: every request whose lifecycle entry was started has it
\* completed or failed in the end, on every path.
C24_EveryStartSettles ==
  \A r \in Requests :
    (metrics[r].status = "started") ~> (metrics[r].status \in {"completed", "failed"})

\* the same with the streamed request whose backend response has no body
\* set aside
C24_SettlesUnlessNoBody ==
  \A r \in Requests :
    (metrics[r].status = "started")
      ~> (metrics[r].status \in {"completed", "failed"} \/ source[r].body = "absent")

\* the entry of r carries a terminal event
C25_Terminal(r) == metrics[r].status \in {"completed", "failed"}

\* nothing of r is still awaited that would record an event
C25_AtRest(r) ==
  /\ pc[r] = "done"
  /\ pump[r].state \in {"off", "finished", "failed"}

\* r is answered as a stream by a detached task
C25_Streamed(r) == pump[r] # NoPump

\* an entry with a terminal event is left as it is by every step
C25_TerminalKept ==
  \A r \in Requests : C25_Terminal(r) => metrics'[r] = metrics[r]

\* a terminal event is recorded at the end of the handler (or of its
\* detached task); while a chunked run still has calls to make or await,
\* its entry is started; a streamed request is completed only with its
\* sink closed after the [DONE] frame
C25_TerminalLast ==
  \A r \in Requests :
    /\ C25_Terminal(r) => C25_AtRest(r)
    /\ (ChunkingTriggered(r) /\ pc[r] \in {"chunk_call", "chunk_delay"}) =>
         metrics[r].status = "started"
    /\ (C25_Streamed(r) /\ metrics[r].status = "completed") =>
         /\ sink[r].state = "closed"
         /\ Len(sink[r].frames) >= 2
         /\ sink[r].frames[Len(sink[r].frames)] = doneSentinel
    /\ (C25_Streamed(r) /\ metrics[r].status = "failed") => sink[r].state = "aborted"

\* C25: at most one terminal lifecycle event is recorded per request: an
\* entry that is completed or failed never changes again, the per-segment
\* calls of a chunked run record no event of their own, and a streamed
\* request is completed only after [DONE] was written and the sink closed.
C25_OneTerminalEvent == [][C25_TerminalKept]_vars /\ []C25_TerminalLast

\* one request completed a run of three segments while the other one's
\* stream was written out, closed and completed
C25_Witness ==
  \E r, q \in Requests :
    /\ ChunkingTriggered(r)
    /\ Len(calls[r]) = 3
    /\ metrics[r].status = "completed"
    /\ C25_Streamed(q)
    /\ metrics[q].status = "completed"
    /\ Len(sink[q].frames) >= 3

\* ------------------------------------------- claims on the reassembly

\* the segments follow one another by increasing index
C26_InIndexOrder(chunks) ==
  \A i \in 1..Len(chunks) - 1 : chunks[i].index < chunks[i + 1].index

\* C26: reconstructText does not depend on the order of its argument: for
\* segments with distinct indices handed over in any order, the text it
\* returns is the one it returns for the same segments in index order.
C26_OrderIndependent ==
  cPc = "reconstructed" =>
    /\ C26_InIndexOrder(cResult)
    /\ Len(cArg) = Len(cResult)
    /\ {cArg[i] : i \in 1..Len(cArg)} = {cResult[i] : i \in 1..Len(cResult)}
    /\ cRebuilt = reconstructText(cResult)

\* three segments were handed over in an order that is neither the index
\* order nor its reverse, and folding them as handed over gives another text
C26_Witness ==
  /\ cPc = "reconstructed"
  /\ Len(cArg) = 3
  /\ cArg[1].index = 1
  /\ cArg[2].index = 2
  /\ cArg[3].index = 0
  /\ cRebuilt # reconstructLoop(cArg, 1, cArg[1].content)

====
